---- MODULE Spec2Model ----
(***************************************************************************)
(* Pairs-trading backtest engine (python/src/backtest): run_backtest and   *)
(* the helpers it calls, as a state machine.  One action per phase of      *)
(* run_backtest: input validation, hedge-ratio selection, one iteration of *)
(* the main simulation loop, the end-of-data closeout, result assembly.    *)
(*                                                                         *)
(* Floats are modelled as exact rationals [n, d] in lowest terms with      *)
(* d > 0; 0/0 is NaN and 1/0 is +infinity.  The inputs are small integers  *)
(* and short fractions, on which the arithmetic is exact.  A z-score is    *)
(* irrational in general ((s - mean) / sqrt(var)); it is kept as its       *)
(* signed square z * |z|, a rational, and compared with the signed square  *)
(* of a threshold, which preserves every comparison exactly.               *)
(***************************************************************************)
EXTENDS Integers, Sequences, FiniteSets, TLC

VARIABLES
    pc,             \* phase of run_backtest
    error,          \* the exception that ended the call, "none" otherwise
    n1, n2,         \* len(prices1), len(prices2)
    interval,       \* the interval argument, a sequence of characters
    config,         \* the BacktestConfig argument
    warmup,         \* which prefix the price series start with (bars 0..L-1)
    nan_at,         \* index of the NaN element of prices1, None when all are finite
    n,              \* local n
    lookback_bars,  \* local lookback_bars
    hedge_ratio,    \* local hedge_ratio
    intercept,      \* local intercept
    spread,         \* spread[i-L+1 .. i-1]: the part of spread the loop still reads
    i,              \* loop variable: the next bar to simulate
    p1, p2,         \* prices1[i-1], prices2[i-1] (the last bar simulated)
    position,       \* the PositionState object
    equity,         \* local equity
    trades,         \* local trades
    daily_returns,  \* local daily_returns
    equity_curve,   \* local equity_curve
    call,           \* a call of a helper on its own: the function and its arguments
    ret,            \* what that call returned or raised, None while it is pending
    status          \* HTTP status of run_backtest_endpoint, 0 while there is none

\* the state of a call of a helper and of the endpoint
helperVars == <<call, ret, status>>

\* the state of a call of run_backtest
engineVars == <<pc, error, n1, n2, interval, config, warmup, nan_at, n, lookback_bars,
                hedge_ratio, intercept, spread, i, p1, p2, position, equity, trades,
                daily_returns, equity_curve>>

vars == <<pc, error, n1, n2, interval, config, warmup, nan_at, n, lookback_bars,
          hedge_ratio, intercept, spread, i, p1, p2, position, equity, trades,
          daily_returns, equity_curve, call, ret, status>>

(***************************************************************************)
(* Bounds of the model.                                                    *)
(***************************************************************************)
\* the longest simulated stretch: passing inputs have N <= L + MaxSimBars
MaxSimBars == 10

(***************************************************************************)
(* Float arithmetic.                                                       *)
(***************************************************************************)
Abs(x) == IF x < 0 THEN -x ELSE x

RECURSIVE GCD(_, _)
GCD(a, b) == IF b = 0 THEN a ELSE GCD(b, a % b)

NaN == [n |-> 0, d |-> 0]

IsNaN(x) == x.d = 0 /\ x.n = 0

\* float("inf"): only returned and compared, never an operand of arithmetic
Infinity == [n |-> 1, d |-> 0]

Rat(num, den) ==
    IF den = 0 THEN NaN
    ELSE LET g == GCD(Abs(num), Abs(den))
             s == IF den < 0 THEN -1 ELSE 1
         IN  [n |-> s * (num \div g), d |-> Abs(den) \div g]

F(k) == [n |-> k, d |-> 1]

FAdd(a, b) == IF IsNaN(a) \/ IsNaN(b) THEN NaN ELSE Rat(a.n * b.d + b.n * a.d, a.d * b.d)
FSub(a, b) == IF IsNaN(a) \/ IsNaN(b) THEN NaN ELSE Rat(a.n * b.d - b.n * a.d, a.d * b.d)
FMul(a, b) == IF IsNaN(a) \/ IsNaN(b) THEN NaN ELSE Rat(a.n * b.n, a.d * b.d)
\* the divisors of the model are never zero (prices are positive, 1 + |beta| >= 1)
FDiv(a, b) == IF IsNaN(a) \/ IsNaN(b) THEN NaN ELSE Rat(a.n * b.d, a.d * b.n)
FAbs(a) == IF IsNaN(a) THEN NaN ELSE [n |-> Abs(a.n), d |-> a.d]
FNeg(a) == IF IsNaN(a) THEN NaN ELSE [n |-> -a.n, d |-> a.d]

\* comparisons: every ordered comparison with NaN is False, != is True
FLt(a, b) == ~IsNaN(a) /\ ~IsNaN(b) /\ a.n * b.d < b.n * a.d
FLe(a, b) == ~IsNaN(a) /\ ~IsNaN(b) /\ a.n * b.d <= b.n * a.d
FGt(a, b) == FLt(b, a)
FGe(a, b) == FLe(b, a)
FEq(a, b) == ~IsNaN(a) /\ ~IsNaN(b) /\ a = b
FNe(a, b) == ~FEq(a, b)

\* int(x) for a finite float: truncation toward zero
FInt(a) == IF a.n >= 0 THEN a.n \div a.d ELSE -((-a.n) \div a.d)

\* x |x|: strictly increasing, so it orders (s - mean) / std without a root
SignedSquare(a) == FMul(a, FAbs(a))

RECURSIVE FSum(_)
FSum(s) == IF s = <<>> THEN F(0) ELSE FAdd(Head(s), FSum(Tail(s)))

Last(s) == s[Len(s)]

(***************************************************************************)
(* Optional[float]: <<>> is None, <<x>> is the value x.                    *)
(***************************************************************************)
None == <<>>
Some(x) == <<x>>
IsNone(o) == o = <<>>
Value(o) == o[1]

(***************************************************************************)
(* cointegration.py: interval parsing and lookback                         *)
(***************************************************************************)
Digits == <<"0", "1", "2", "3", "4", "5", "6", "7", "8", "9">>

DigitValue(c) == CHOOSE k \in 0..9 : Digits[k + 1] = c

IsDigit(c) == \E k \in 1..10 : Digits[k] = c

\* str.lower on the characters the model uses
Lower(c) ==
    CASE c = "M" -> "m" [] c = "I" -> "i" [] c = "N" -> "n" [] c = "H" -> "h"
      [] c = "D" -> "d" [] c = "W" -> "w" [] OTHER -> c

LowerStr(s) == [k \in 1..Len(s) |-> Lower(s[k])]

RECURSIVE RStrip(_, _)
RStrip(s, chars) ==
    IF s # <<>> /\ Last(s) \in chars THEN RStrip(SubSeq(s, 1, Len(s) - 1), chars) ELSE s

RECURSIVE LStrip(_, _)
LStrip(s, chars) ==
    IF s # <<>> /\ Head(s) \in chars THEN LStrip(Tail(s), chars) ELSE s

Strip(s) == LStrip(RStrip(s, {" "}), {" "})

EndsWith(s, suffix) ==
    Len(s) >= Len(suffix) /\ SubSeq(s, Len(s) - Len(suffix) + 1, Len(s)) = suffix

RECURSIVE DecimalValue(_)
DecimalValue(s) == IF s = <<>> THEN 0 ELSE 10 * DecimalValue(SubSeq(s, 1, Len(s) - 1)) + DigitValue(Last(s))

\* float(s) on strings of digits, letters and blanks: surrounding blanks are
\* ignored, [ok |-> FALSE] is the ValueError of float()
ParseFloat(s) ==
    LET t == Strip(s)
    IN  IF t # <<>> /\ \A k \in 1..Len(t) : IsDigit(t[k])
        THEN [ok |-> TRUE, val |-> F(DecimalValue(t))]
        ELSE [ok |-> FALSE, val |-> NaN]

Scaled(r, k) == IF r.ok THEN [ok |-> TRUE, val |-> FMul(r.val, F(k))] ELSE r

_parse_interval_to_minutes(interval_arg) ==
    LET s == Strip(LowerStr(interval_arg))
    IN  IF EndsWith(s, <<"m", "i", "n">>) \/ EndsWith(s, <<"m">>)
            THEN ParseFloat(RStrip(s, {"m", "i", "n"}))
        ELSE IF EndsWith(s, <<"h">>) THEN Scaled(ParseFloat(RStrip(s, {"h"})), 60)
        ELSE IF EndsWith(s, <<"d">>) THEN Scaled(ParseFloat(RStrip(s, {"d"})), 1440)
        ELSE IF EndsWith(s, <<"w">>) THEN Scaled(ParseFloat(RStrip(s, {"w"})), 10080)
        ELSE [ok |-> TRUE, val |-> F(1440)]

MinLookbackBars == 10

Max(a, b) == IF a >= b THEN a ELSE b

\* mutant: the floor of 10 bars is missing
calculate_lookback_bars_no_floor(lookback_hours, interval_arg) ==
    LET m == _parse_interval_to_minutes(interval_arg)
    IN  IF ~m.ok THEN [ok |-> FALSE, exc |-> "ValueError", val |-> 0]
        ELSE IF m.val.n = 0 THEN [ok |-> FALSE, exc |-> "ZeroDivisionError", val |-> 0]
        ELSE [ok |-> TRUE, exc |-> "none",
              val |-> FInt(FDiv(FMul(lookback_hours, F(60)), m.val))]

\* mutant: the lookback is taken in minutes, not hours
calculate_lookback_bars_hours_as_minutes(lookback_hours, interval_arg) ==
    LET m == _parse_interval_to_minutes(interval_arg)
    IN  IF ~m.ok THEN [ok |-> FALSE, exc |-> "ValueError", val |-> 0]
        ELSE IF m.val.n = 0 THEN [ok |-> FALSE, exc |-> "ZeroDivisionError", val |-> 0]
        ELSE [ok |-> TRUE, exc |-> "none",
              val |-> Max(MinLookbackBars, FInt(FDiv(lookback_hours, m.val)))]

\* [ok |-> FALSE]: the call raised (ValueError of float(), ZeroDivisionError)
calculate_lookback_bars(lookback_hours, interval_arg) ==
    LET m == _parse_interval_to_minutes(interval_arg)
    IN  IF ~m.ok THEN [ok |-> FALSE, exc |-> "ValueError", val |-> 0]
        ELSE IF m.val.n = 0 THEN [ok |-> FALSE, exc |-> "ZeroDivisionError", val |-> 0]
        ELSE [ok |-> TRUE, exc |-> "none",
              val |-> Max(MinLookbackBars, FInt(FDiv(FMul(lookback_hours, F(60)), m.val)))]

(***************************************************************************)
(* metrics.py: get_annualization_factor                                    *)
(***************************************************************************)
\* numerator / float(prefix): ValueError of float(), ZeroDivisionError of /
PeriodsPerYear(numerator, r) ==
    IF ~r.ok THEN [ok |-> FALSE, exc |-> "ValueError", val |-> NaN]
    ELSE IF r.val.n = 0 THEN [ok |-> FALSE, exc |-> "ZeroDivisionError", val |-> NaN]
    ELSE [ok |-> TRUE, exc |-> "none", val |-> FDiv(F(numerator), r.val)]

get_annualization_factor(interval_arg) ==
    LET s == Strip(LowerStr(interval_arg))
    IN  IF EndsWith(s, <<"m", "i", "n">>) \/ EndsWith(s, <<"m">>)
            THEN PeriodsPerYear(365 * 24 * 60, ParseFloat(RStrip(s, {"m", "i", "n"})))
        ELSE IF EndsWith(s, <<"h">>) THEN PeriodsPerYear(365 * 24, ParseFloat(RStrip(s, {"h"})))
        ELSE IF EndsWith(s, <<"d">>) THEN PeriodsPerYear(365, ParseFloat(RStrip(s, {"d"})))
        ELSE IF EndsWith(s, <<"w">>) THEN PeriodsPerYear(52, ParseFloat(RStrip(s, {"w"})))
        ELSE [ok |-> TRUE, exc |-> "none", val |-> F(365)]

(***************************************************************************)
(* cointegration.py: approximate p-value                                   *)
(***************************************************************************)
COINTEGRATION_CRITICAL_VALUES ==
    [k \in {2, 3} |->
        IF k = 2 THEN [one |-> Rat(-390, 100), five |-> Rat(-334, 100), ten |-> Rat(-304, 100)]
        ELSE [one |-> Rat(-429, 100), five |-> Rat(-374, 100), ten |-> Rat(-345, 100)]]

FMax(a, b) == IF FGe(a, b) THEN a ELSE b

FMin(a, b) == IF FLe(a, b) THEN a ELSE b

_approximate_cointegration_pvalue(t_stat, num_vars) ==
    LET cv == IF num_vars \in DOMAIN COINTEGRATION_CRITICAL_VALUES
              THEN COINTEGRATION_CRITICAL_VALUES[num_vars]
              ELSE COINTEGRATION_CRITICAL_VALUES[2]
    IN  IF FLe(t_stat, cv.one)
        THEN FMax(Rat(1, 1000), FAdd(Rat(1, 1000), FMul(FSub(t_stat, cv.one), Rat(1, 1000))))
        ELSE IF FLe(t_stat, cv.five)
        THEN LET range_val == FSub(cv.one, cv.five)
                 pos == FDiv(FSub(cv.one, t_stat), range_val)
             IN  FAdd(Rat(1, 100), FMul(pos, Rat(4, 100)))
        ELSE IF FLe(t_stat, cv.ten)
        THEN LET range_val == FSub(cv.five, cv.ten)
                 pos == FDiv(FSub(cv.five, t_stat), range_val)
             IN  FAdd(Rat(5, 100), FMul(pos, Rat(5, 100)))
        ELSE IF FLe(t_stat, F(0))
        THEN LET range_val == FAbs(cv.ten)
                 pos == FDiv(FSub(cv.ten, t_stat), range_val)
             IN  FMin(Rat(1, 2), FAdd(Rat(10, 100), FMul(pos, Rat(40, 100))))
        ELSE FMin(Rat(99, 100), FAdd(Rat(1, 2), FMul(t_stat, Rat(1, 10))))

(***************************************************************************)
(* numpy reductions used by metrics.py                                     *)
(***************************************************************************)
RECURSIVE Filter(_, _)
\* returns[returns > 0] for sign = 1, returns[returns < 0] for sign = -1
Filter(s, sign) ==
    IF s = <<>> THEN <<>>
    ELSE IF (sign = 1 /\ FGt(Head(s), F(0))) \/ (sign = -1 /\ FLt(Head(s), F(0)))
    THEN <<Head(s)>> \o Filter(Tail(s), sign)
    ELSE Filter(Tail(s), sign)

RECURSIVE SeqMax(_)
SeqMax(s) ==
    IF Len(s) = 1 THEN s[1]
    ELSE LET m == SeqMax(Tail(s)) IN IF FGe(Head(s), m) THEN Head(s) ELSE m

RECURSIVE SeqMin(_)
SeqMin(s) ==
    IF Len(s) = 1 THEN s[1]
    ELSE LET m == SeqMin(Tail(s)) IN IF FLe(Head(s), m) THEN Head(s) ELSE m

RECURSIVE Prod(_)
\* np.prod(1 + returns)
Prod(returns) ==
    IF returns = <<>> THEN F(1) ELSE FMul(FAdd(F(1), Head(returns)), Prod(Tail(returns)))

\* np.cumprod(1 + returns)
CumProd(returns) == [k \in 1..Len(returns) |-> Prod(SubSeq(returns, 1, k))]

\* np.maximum.accumulate(equity)
RunningMax(eq) == [k \in 1..Len(eq) |-> SeqMax(SubSeq(eq, 1, k))]

(***************************************************************************)
(* cointegration.py: spread and z-score                                    *)
(***************************************************************************)
build_spread(prices_y, prices_x, beta, alpha) ==
    FSub(FSub(prices_y, alpha), FMul(beta, prices_x))

Mean(w) == FDiv(FSum(w), F(Len(w)))

\* np.std(w, ddof=1) squared
SampleVariance(w) ==
    LET mu == Mean(w)
    IN  FDiv(FSum([k \in 1..Len(w) |-> FMul(FSub(w[k], mu), FSub(w[k], mu))]), F(Len(w) - 1))

\* current_z_score of calculate_z_score(spread_window, lookback=None), returned
\* as its signed square z|z|: the static branch, z = 0 when the std is zero.
calculate_z_score(w) ==
    IF Len(w) < 2 THEN F(0)
    ELSE LET var == SampleVariance(w)
         IN  IF FEq(var, F(0)) THEN F(0)
             ELSE FDiv(SignedSquare(FSub(Last(w), Mean(w))), var)

\* comparisons of a z-score (signed square) with a threshold (plain float)
ZGe(z, t) == FGe(z, SignedSquare(t))
ZLe(z, t) == FLe(z, SignedSquare(t))
ZLt(z, t) == FLt(z, SignedSquare(t))
ZGt(z, t) == FGt(z, SignedSquare(t))
ZAbsGe(z, t) == FGe(FAbs(z), SignedSquare(t))

(***************************************************************************)
(* execution.py                                                            *)
(***************************************************************************)
SlippageBpsUnit == 10000

\* mutant: slippage is charged on one leg only
calculate_round_trip_costs_one_way_slippage(commission_pct, slippage_bps) ==
    FAdd(FMul(commission_pct, F(2)), FDiv(slippage_bps, F(SlippageBpsUnit)))

calculate_round_trip_costs(commission_pct, slippage_bps) ==
    LET commissions == FMul(commission_pct, F(2))
        slippage == FMul(FDiv(slippage_bps, F(SlippageBpsUnit)), F(2))
    IN  FAdd(commissions, slippage)

calculate_pair_trade_pnl(entry_price1, entry_price2, exit_price1, exit_price2, beta, is_long_spread) ==
    LET return1 == FDiv(FSub(exit_price1, entry_price1), entry_price1)
        return2 == FDiv(FSub(exit_price2, entry_price2), entry_price2)
        abs_hedge_ratio == FAbs(beta)
        weight1 == FDiv(F(1), FAdd(F(1), abs_hedge_ratio))
        weight2 == FDiv(abs_hedge_ratio, FAdd(F(1), abs_hedge_ratio))
    IN  IF is_long_spread
        THEN FSub(FMul(weight1, return1), FMul(weight2, return2))
        ELSE FSub(FMul(weight2, return2), FMul(weight1, return1))

(***************************************************************************)
(* metrics.py.  The Sharpe and Sortino ratios, mean * sqrt(ann) / std, are *)
(* kept as their signed squares; the intervals of the model are ones on    *)
(* which get_annualization_factor returns.                                 *)
(***************************************************************************)
calculate_sharpe_ratio(returns, interval_arg) ==
    IF Len(returns) < 2 THEN F(0)
    ELSE LET var == SampleVariance(returns)
         IN  IF FEq(var, F(0)) THEN F(0)
             ELSE FDiv(FMul(SignedSquare(Mean(returns)),
                            get_annualization_factor(interval_arg).val), var)

calculate_sortino_ratio(returns, interval_arg) ==
    IF Len(returns) < 2 THEN F(0)
    ELSE LET downside_returns == Filter(returns, -1)
             var == SampleVariance(downside_returns)
         IN  IF Len(downside_returns) = 0
             THEN (IF FGt(Mean(returns), F(0)) THEN Infinity ELSE F(0))
             ELSE IF FEq(var, F(0)) THEN F(0)
             ELSE FDiv(FMul(SignedSquare(Mean(returns)),
                            get_annualization_factor(interval_arg).val), var)

RECURSIVE DrawdownDuration(_, _, _)
\* the loop over drawdown: the longest run of negative entries
DrawdownDuration(drawdown, current, longest) ==
    IF drawdown = <<>> THEN longest
    ELSE IF FLt(Head(drawdown), F(0))
    THEN DrawdownDuration(Tail(drawdown), current + 1, Max(longest, current + 1))
    ELSE DrawdownDuration(Tail(drawdown), 0, longest)

calculate_max_drawdown(returns) ==
    IF Len(returns) = 0 THEN [max_dd |-> F(0), duration |-> 0]
    ELSE LET eq == CumProd(returns)
             running_max == RunningMax(eq)
             drawdown == [k \in 1..Len(eq) |->
                            FDiv(FSub(eq[k], running_max[k]), running_max[k])]
         IN  [max_dd |-> FAbs(SeqMin(drawdown)),
              duration |-> DrawdownDuration(drawdown, 0, 0)]

\* (1 + total_return) ** (ann_factor / periods) is not a rational: the ratio is
\* returned as the terms of ((growth ** exponent) - 1) / max_drawdown
calculate_calmar_ratio(returns, max_drawdown, interval_arg) ==
    IF FEq(max_drawdown, F(0)) THEN F(0)
    ELSE IF Len(returns) = 0 THEN F(0)
    ELSE [growth |-> Prod(returns),
          exponent |-> FDiv(get_annualization_factor(interval_arg).val, F(Len(returns))),
          max_drawdown |-> max_drawdown]

\* mutant: a trade list without trades counts as one without losing trades
_empty_metrics_infinite_profit_factor ==
    [total_return |-> F(0), total_trades |-> 0, winning_trades |-> 0,
     losing_trades |-> 0, win_rate |-> F(0), profit_factor |-> Infinity,
     avg_win |-> F(0), avg_loss |-> F(0), max_win |-> F(0), max_loss |-> F(0),
     avg_holding_period |-> F(0), sharpe_ratio |-> F(0), sortino_ratio |-> F(0),
     calmar_ratio |-> F(0), max_drawdown |-> F(0), max_drawdown_duration |-> 0]

_empty_metrics ==
    [total_return |-> F(0), total_trades |-> 0, winning_trades |-> 0,
     losing_trades |-> 0, win_rate |-> F(0), profit_factor |-> F(0),
     avg_win |-> F(0), avg_loss |-> F(0), max_win |-> F(0), max_loss |-> F(0),
     avg_holding_period |-> F(0), sharpe_ratio |-> F(0), sortino_ratio |-> F(0),
     calmar_ratio |-> F(0), max_drawdown |-> F(0), max_drawdown_duration |-> 0]

\* mutant: without losing trades the profit factor is the gross profit
ProfitFactor_finite(gross_profit, gross_loss) ==
    IF FGt(gross_loss, F(0)) THEN FDiv(gross_profit, gross_loss) ELSE gross_profit

\* line 77
ProfitFactor(gross_profit, gross_loss) ==
    IF FGt(gross_loss, F(0)) THEN FDiv(gross_profit, gross_loss) ELSE Infinity

calculate_metrics(trades_arg, returns, interval_arg) ==
    IF Len(trades_arg) = 0 THEN _empty_metrics
    ELSE LET pnls == [k \in 1..Len(trades_arg) |-> trades_arg[k].pnl_net]
             winning_pnls == Filter(pnls, 1)
             losing_pnls == Filter(pnls, -1)
             gross_profit == IF Len(winning_pnls) > 0 THEN FSum(winning_pnls) ELSE F(0)
             gross_loss == IF Len(losing_pnls) > 0 THEN FAbs(FSum(losing_pnls)) ELSE F(0)
             holding_periods == [k \in 1..Len(trades_arg) |-> F(trades_arg[k].holding_period)]
             dd == calculate_max_drawdown(returns)
         IN  [total_return |-> FSub(Prod(returns), F(1)),
              total_trades |-> Len(trades_arg),
              winning_trades |-> Len(winning_pnls),
              losing_trades |-> Len(losing_pnls),
              win_rate |-> FDiv(F(Len(winning_pnls)), F(Len(trades_arg))),
              profit_factor |-> ProfitFactor(gross_profit, gross_loss),
              avg_win |-> IF Len(winning_pnls) > 0 THEN Mean(winning_pnls) ELSE F(0),
              avg_loss |-> IF Len(losing_pnls) > 0 THEN Mean(losing_pnls) ELSE F(0),
              max_win |-> IF Len(winning_pnls) > 0 THEN SeqMax(winning_pnls) ELSE F(0),
              max_loss |-> IF Len(losing_pnls) > 0 THEN SeqMin(losing_pnls) ELSE F(0),
              avg_holding_period |-> Mean(holding_periods),
              sharpe_ratio |-> calculate_sharpe_ratio(returns, interval_arg),
              sortino_ratio |-> calculate_sortino_ratio(returns, interval_arg),
              calmar_ratio |-> calculate_calmar_ratio(returns, dd.max_dd, interval_arg),
              max_drawdown |-> dd.max_dd,
              max_drawdown_duration |-> dd.duration]

(***************************************************************************)
(* engine.py: PositionState                                                *)
(***************************************************************************)
\* mutant: the position starts open
NewPositionState_open ==
    [is_open |-> TRUE, side |-> "long_spread", entry_bar |-> 0, entry_z_score |-> F(0),
     entry_price1 |-> F(1), entry_price2 |-> F(1), hedge_ratio |-> F(1),
     entry_equity |-> F(1)]

\* lines 77-85: PositionState.__init__
NewPositionState ==
    [is_open |-> FALSE, side |-> "None", entry_bar |-> 0, entry_z_score |-> F(0),
     entry_price1 |-> F(0), entry_price2 |-> F(0), hedge_ratio |-> F(0),
     entry_equity |-> F(1)]

open_position(pos, side, bar, z_score, price1, price2, beta, eq) ==
    [is_open |-> TRUE, side |-> side, entry_bar |-> bar, entry_z_score |-> z_score,
     entry_price1 |-> price1, entry_price2 |-> price2, hedge_ratio |-> beta,
     entry_equity |-> eq]

\* mutant: the position is left as it was
close_position_noop(pos) == pos

close_position(pos) ==
    [pos EXCEPT !.is_open = FALSE, !.side = "None", !.entry_bar = 0,
                !.entry_z_score = F(0), !.entry_price1 = F(0),
                !.entry_price2 = F(0), !.hedge_ratio = F(0)]

(***************************************************************************)
(* engine.py: the pieces of the loop body of run_backtest                  *)
(***************************************************************************)
\* mutant: the stop-loss is tested first
ExitReason_stop_loss_first(pos, z, cfg) ==
    IF ZAbsGe(z, cfg.stop_loss)
       /\ ((pos.side = "long_spread" /\ FLt(z, pos.entry_z_score))
           \/ (pos.side = "short_spread" /\ FGt(z, pos.entry_z_score)))
    THEN "stop_loss"
    ELSE IF (pos.side = "long_spread" /\ ZGe(z, cfg.exit_threshold))
            \/ (pos.side = "short_spread" /\ ZLe(z, cfg.exit_threshold))
    THEN "mean_reversion"
    ELSE "none"

\* mutant: the stop-loss has no adverse-move guard
ExitReason_no_adverse_guard(pos, z, cfg) ==
    IF (pos.side = "long_spread" /\ ZGe(z, cfg.exit_threshold))
       \/ (pos.side = "short_spread" /\ ZLe(z, cfg.exit_threshold))
    THEN "mean_reversion"
    ELSE IF ZAbsGe(z, cfg.stop_loss) THEN "stop_loss"
    ELSE "none"

\* mutant: the mean-reversion comparisons are strict
ExitReason_strict_mean_reversion(pos, z, cfg) ==
    IF (pos.side = "long_spread" /\ ZGt(z, cfg.exit_threshold))
       \/ (pos.side = "short_spread" /\ ZLt(z, cfg.exit_threshold))
    THEN "mean_reversion"
    ELSE IF ZAbsGe(z, cfg.stop_loss)
            /\ ((pos.side = "long_spread" /\ FLt(z, pos.entry_z_score))
                \/ (pos.side = "short_spread" /\ FGt(z, pos.entry_z_score)))
    THEN "stop_loss"
    ELSE "none"

\* lines 217-239: "none" when should_exit stays False
ExitReason(pos, z, cfg) ==
    IF (pos.side = "long_spread" /\ ZGe(z, cfg.exit_threshold))
       \/ (pos.side = "short_spread" /\ ZLe(z, cfg.exit_threshold))
    THEN "mean_reversion"
    ELSE IF ZAbsGe(z, cfg.stop_loss)
            /\ ((pos.side = "long_spread" /\ FLt(z, pos.entry_z_score))
                \/ (pos.side = "short_spread" /\ FGt(z, pos.entry_z_score)))
    THEN "stop_loss"
    ELSE "none"

\* lines 243-270 and 330-356: the Trade built when a position is closed
MakeTrade(pos, exit_time, exit_z, exit_price1, exit_price2, reason, cfg) ==
    LET gross_pnl == calculate_pair_trade_pnl(pos.entry_price1, pos.entry_price2,
                        exit_price1, exit_price2, pos.hedge_ratio,
                        pos.side = "long_spread")
        round_trip_cost == calculate_round_trip_costs(cfg.commission_pct, cfg.slippage_bps)
        net_pnl == FSub(gross_pnl, round_trip_cost)
    IN  [entry_time |-> pos.entry_bar, exit_time |-> exit_time, side |-> pos.side,
         entry_z_score |-> pos.entry_z_score, exit_z_score |-> exit_z,
         entry_price1 |-> pos.entry_price1, entry_price2 |-> pos.entry_price2,
         exit_price1 |-> exit_price1, exit_price2 |-> exit_price2,
         pnl_gross |-> gross_pnl, pnl_net |-> net_pnl,
         holding_period |-> exit_time - pos.entry_bar, exit_reason |-> reason]

\* mutant: the return is not recorded
RecordReturn_dropped(returns, net_pnl) == returns

\* mutant: the return is written to the first entry
RecordReturn_first(returns, net_pnl) == [returns EXCEPT ![1] = net_pnl]

\* daily_returns[-1] = net_pnl (lines 278 and 364); the list is not empty
RecordReturn(returns, net_pnl) == [returns EXCEPT ![Len(returns)] = net_pnl]

\* mutant: the entry comparisons are not strict
EntryArm_non_strict(pos, bar, z, price1, price2, beta, eq, cfg) ==
    IF pos.is_open THEN pos
    ELSE IF ZLe(z, FNeg(cfg.entry_threshold))
        THEN open_position(pos, "long_spread", bar, z, price1, price2, beta, eq)
    ELSE IF ZGe(z, cfg.entry_threshold)
        THEN open_position(pos, "short_spread", bar, z, price1, price2, beta, eq)
    ELSE pos

\* lines 297-320: the position after the entry arm
EntryArm(pos, bar, z, price1, price2, beta, eq, cfg) ==
    IF pos.is_open THEN pos
    ELSE IF ZLt(z, FNeg(cfg.entry_threshold))
        THEN open_position(pos, "long_spread", bar, z, price1, price2, beta, eq)
    ELSE IF ZGt(z, cfg.entry_threshold)
        THEN open_position(pos, "short_spread", bar, z, price1, price2, beta, eq)
    ELSE pos

\* mutant: returns are added, not compounded
RECURSIVE BuildEquityCurve_additive(_, _)
BuildEquityCurve_additive(curve, returns) ==
    IF returns = <<>> THEN curve
    ELSE BuildEquityCurve_additive(Append(curve, FAdd(Last(curve), Head(returns))),
                                   Tail(returns))

\* mutant: the last return is not compounded, the curve repeats its last value
RECURSIVE BuildEquityCurve_last_return_ignored(_, _)
BuildEquityCurve_last_return_ignored(curve, returns) ==
    IF returns = <<>> THEN curve
    ELSE IF Len(returns) = 1 THEN Append(curve, Last(curve))
    ELSE BuildEquityCurve_last_return_ignored(
            Append(curve, FMul(Last(curve), FAdd(F(1), Head(returns)))), Tail(returns))

\* lines 367-369
RECURSIVE BuildEquityCurve(_, _)
BuildEquityCurve(curve, returns) ==
    IF returns = <<>> THEN curve
    ELSE BuildEquityCurve(Append(curve, FMul(Last(curve), FAdd(F(1), Head(returns)))),
                          Tail(returns))

(***************************************************************************)
(* The inputs of run_backtest the model draws from.                        *)
(***************************************************************************)
DefaultLookbackBars == 20

MinExtraBars == 10

MinEngleGrangerObs == 20

\* (price1, price2) of one bar
PricePairs == {<<2, 1>>, <<1, 2>>}

\* the series start with one of three prefixes: constant, alternating, or
\* constant but for one outlier at bar 1
WarmupKinds == {"flat", "alternating", "spike"}

WarmupPair(kind, bar) ==
    IF kind = "alternating" /\ bar % 2 = 1 THEN <<2, 1>>
    ELSE IF kind = "spike" /\ bar = 1 THEN <<1, 4>>
    ELSE <<1, 1>>

BaseConfig ==
    [entry_threshold |-> F(1), exit_threshold |-> F(0), stop_loss |-> F(2),
     commission_pct |-> F(0), slippage_bps |-> F(0),
     lookback_hours |-> Some(F(10)),
     force_hedge_ratio |-> Some(F(1)), force_intercept |-> Some(F(0))]

\* forced (beta, alpha) = (1, 0), no costs
ConfigForced == BaseConfig

\* fitted parameters, costs of 1/4 per round trip (2 * 1/16 + 2 * 625 bps)
ConfigFitted ==
    [BaseConfig EXCEPT !.commission_pct = Rat(1, 16), !.slippage_bps = F(625),
                       !.force_hedge_ratio = None, !.force_intercept = None]

\* no lookback_hours: the fixed 20-bar window
ConfigNoLookback == [BaseConfig EXCEPT !.lookback_hours = None]

\* lookback_hours = 0.0 is falsy: the 20-bar window again
ConfigZeroLookback == [BaseConfig EXCEPT !.lookback_hours = Some(F(0))]

\* thresholds close enough for the stop-loss to be within reach of a 10-bar window
ConfigTightStop ==
    [BaseConfig EXCEPT !.entry_threshold = Rat(1, 2), !.stop_loss = Rat(3, 2)]

\* only one of the two overrides is supplied
ConfigLoneHedgeRatio == [BaseConfig EXCEPT !.force_intercept = None]

ConfigLoneIntercept == [BaseConfig EXCEPT !.force_hedge_ratio = None]

\* an exit threshold below -entry_threshold: a long position can meet the
\* mean-reversion and the stop-loss conditions on the same bar
ConfigExitBelowEntry ==
    [BaseConfig EXCEPT !.entry_threshold = Rat(1, 2), !.exit_threshold = F(-2),
                       !.stop_loss = Rat(3, 2)]

\* entry_threshold 0: a bar with z == 0 sits exactly on the entry threshold
ConfigZeroEntry == [BaseConfig EXCEPT !.entry_threshold = F(0)]

Configs ==
    {ConfigForced, ConfigFitted, ConfigNoLookback, ConfigZeroLookback, ConfigTightStop}

Intervals == {<<"1", "h">>, <<"1", "d">>}

\* what the cointegrating regression (statsmodels OLS) may return as
\* (hedge_ratio, intercept): the library is outside the repository
FittedParams == {[hedge_ratio |-> F(0), intercept |-> F(1)]}

\* line 154: `if config.lookback_hours:`
LookbackHoursTruthy(cfg) ==
    ~IsNone(cfg.lookback_hours) /\ Value(cfg.lookback_hours) # F(0)

\* lines 154-158
LookbackOf(cfg, interval_arg) ==
    IF LookbackHoursTruthy(cfg)
    THEN calculate_lookback_bars(Value(cfg.lookback_hours), interval_arg)
    ELSE [ok |-> TRUE, exc |-> "none", val |-> DefaultLookbackBars]

\* lengths tried for an input: too short for any window, one bar short of the
\* window in use, and the longest simulated stretch
CandidateLengths(cfg, interval_arg) ==
    LET lb == LookbackOf(cfg, interval_arg).val
    IN  {MinLookbackBars + MinExtraBars - 1, lb + MinExtraBars - 1, lb + MaxSimBars}

InitLocals ==
    /\ pc = "start"
    /\ error = "none"
    /\ n = 0
    /\ lookback_bars = 0
    /\ hedge_ratio = F(0)
    /\ intercept = F(0)
    /\ spread = <<>>
    /\ i = 0
    /\ p1 = F(0)
    /\ p2 = F(0)
    /\ position = NewPositionState
    /\ equity = F(1)
    /\ trades = <<>>
    /\ daily_returns = <<>>
    /\ equity_curve = <<>>
    /\ call = None
    /\ ret = None
    /\ status = 0

Init ==
    /\ config \in Configs
    /\ interval \in Intervals
    /\ warmup \in WarmupKinds
    /\ n1 \in CandidateLengths(config, interval)
    /\ n2 \in {n1, n1 - 1}
    /\ nan_at = None
    /\ InitLocals

(***************************************************************************)
(* run_backtest                                                            *)
(***************************************************************************)
Raise(exc) ==
    /\ UNCHANGED helperVars
    /\ pc' = "error"
    /\ error' = exc

\* prices1[bar], prices2[bar] for a bar of the prefix
Price1At(bar) == IF nan_at = Some(bar) THEN NaN ELSE F(WarmupPair(warmup, bar)[1])
Price2At(bar) == F(WarmupPair(warmup, bar)[2])

\* lines 146-165: validation
Validate ==
    /\ UNCHANGED helperVars
    /\ pc = "start"
    /\ LET lb == LookbackOf(config, interval)
       IN  IF n1 # n2
           THEN /\ Raise("ValueError: Price series must have same length")
                /\ UNCHANGED <<n, lookback_bars>>
           ELSE IF ~lb.ok
           THEN /\ Raise(lb.exc)
                /\ UNCHANGED <<n, lookback_bars>>
           ELSE IF n1 < lb.val + MinExtraBars
           THEN /\ Raise("ValueError: Insufficient data")
                /\ lookback_bars' = lb.val
                /\ UNCHANGED n
           ELSE /\ pc' = "hedge"
                /\ lookback_bars' = lb.val
                /\ n' = n1
                /\ UNCHANGED error
    /\ UNCHANGED <<n1, n2, interval, config, warmup, nan_at, hedge_ratio, intercept,
                   spread, i, p1, p2, position, equity, trades, daily_returns,
                   equity_curve>>

\* lines 198-204: spread, position and equity once (beta, alpha) are known;
\* the loop starts at bar lookback_bars and first reads spread[1 .. lookback_bars]
StartLoop(beta, alpha) ==
    /\ UNCHANGED helperVars
    /\ pc' = "loop"
    /\ hedge_ratio' = beta
    /\ intercept' = alpha
    /\ spread' = [k \in 1..(lookback_bars - 1) |->
                    build_spread(Price1At(k), Price2At(k), beta, alpha)]
    /\ position' = NewPositionState
    /\ equity' = F(1)
    /\ i' = lookback_bars
    /\ UNCHANGED <<error, n1, n2, interval, config, warmup, nan_at, n, lookback_bars,
                   p1, p2, trades, daily_returns, equity_curve>>

\* mutant: the override is never honoured
ForcedParametersSupplied_never(cfg) == FALSE

\* line 176: `config.force_hedge_ratio is not None and config.force_intercept is not None`
ForcedParametersSupplied(cfg) ==
    ~IsNone(cfg.force_hedge_ratio) /\ ~IsNone(cfg.force_intercept)

\* lines 176-182
UseForcedParameters ==
    /\ pc = "hedge"
    /\ ForcedParametersSupplied(config)
    /\ StartLoop(Value(config.force_hedge_ratio), Value(config.force_intercept))

\* lines 183-195 with engle_granger_test (cointegration.py 67-116)
FitEngleGranger ==
    /\ pc = "hedge"
    /\ ~ForcedParametersSupplied(config)
    /\ IF n1 # n2
       THEN /\ Raise("ValueError: Price series must have same length (engle_granger_test)")
            /\ UNCHANGED <<n1, n2, interval, config, warmup, nan_at, n, lookback_bars,
                           hedge_ratio, intercept, spread, i, p1, p2, position, equity,
                           trades, daily_returns, equity_curve>>
       ELSE IF n1 < MinEngleGrangerObs
       THEN /\ Raise("ValueError: Need at least 20 observations")
            /\ UNCHANGED <<n1, n2, interval, config, warmup, nan_at, n, lookback_bars,
                           hedge_ratio, intercept, spread, i, p1, p2, position, equity,
                           trades, daily_returns, equity_curve>>
       ELSE IF ~IsNone(nan_at)
       THEN \* the regression on data with a NaN: the library raises, or it
            \* returns NaN parameters
            \/ /\ Raise("statsmodels error")
               /\ UNCHANGED <<n1, n2, interval, config, warmup, nan_at, n, lookback_bars,
                              hedge_ratio, intercept, spread, i, p1, p2, position, equity,
                              trades, daily_returns, equity_curve>>
            \/ StartLoop(NaN, NaN)
       ELSE \E fit \in FittedParams : StartLoop(fit.hedge_ratio, fit.intercept)

\* lines 207-323: one iteration of the main loop, on the bar (price1, price2)
SimulateBar ==
    /\ UNCHANGED helperVars
    /\ pc = "loop"
    /\ i < n
    /\ \E pair \in PricePairs :
        LET bar_p1 == IF nan_at = Some(i) THEN NaN ELSE F(pair[1])
            bar_p2 == F(pair[2])
        IN
        \E window \in {Append(spread, build_spread(bar_p1, bar_p2, hedge_ratio, intercept))} :
        \E z_score \in {calculate_z_score(window)} :
        \E reason \in {IF position.is_open THEN ExitReason(position, z_score, config)
                       ELSE "none"} :
        \E trade \in {MakeTrade(position, i, z_score, bar_p1, bar_p2, reason, config)} :
        LET exited == reason # "none"
            after_exit == IF exited THEN close_position(position) ELSE position
            equity_after == IF exited THEN FMul(equity, FAdd(F(1), trade.pnl_net))
                            ELSE equity
        IN  IF exited /\ daily_returns = <<>>
            THEN \* daily_returns[-1] on an empty list, after trades.append
                 /\ Raise("IndexError")
                 /\ trades' = Append(trades, trade)
                 /\ equity' = equity_after
                 /\ p1' = bar_p1
                 /\ p2' = bar_p2
                 /\ UNCHANGED <<spread, i, position, daily_returns>>
            ELSE /\ trades' = IF exited THEN Append(trades, trade) ELSE trades
                 /\ equity' = equity_after
                 /\ daily_returns' =
                        Append(IF exited THEN RecordReturn(daily_returns, trade.pnl_net)
                               ELSE daily_returns, F(0))
                 /\ position' = EntryArm(after_exit, i, z_score, bar_p1, bar_p2,
                                         hedge_ratio, equity_after, config)
                 /\ spread' = Tail(window)
                 /\ p1' = bar_p1
                 /\ p2' = bar_p2
                 /\ i' = i + 1
                 /\ UNCHANGED <<pc, error>>
    /\ UNCHANGED <<n1, n2, interval, config, warmup, nan_at, n, lookback_bars,
                   hedge_ratio, intercept, equity_curve>>

\* lines 325-364: the end-of-data closeout; prices1[n - 1] is the last bar simulated
Closeout ==
    /\ UNCHANGED helperVars
    /\ pc = "loop"
    /\ i = n
    /\ LET trade == MakeTrade(position, n - 1, F(0), p1, p2, "end_of_data", config)
       IN  IF ~position.is_open
           THEN /\ pc' = "closed"
                /\ UNCHANGED <<error, trades, equity, daily_returns>>
           ELSE IF daily_returns = <<>>
           THEN /\ Raise("IndexError")
                /\ trades' = Append(trades, trade)
                /\ equity' = FMul(equity, FAdd(F(1), trade.pnl_net))
                /\ UNCHANGED daily_returns
           ELSE /\ pc' = "closed"
                /\ trades' = Append(trades, trade)
                /\ equity' = FMul(equity, FAdd(F(1), trade.pnl_net))
                /\ daily_returns' = RecordReturn(daily_returns, trade.pnl_net)
                /\ UNCHANGED error
    /\ UNCHANGED <<n1, n2, interval, config, warmup, nan_at, n, lookback_bars,
                   hedge_ratio, intercept, spread, i, p1, p2, position, equity_curve>>

\* lines 366-394: the equity curve and the returned BacktestResult; its metrics
\* are ResultMetrics, a function of the trades and returns of the final state
BuildResult ==
    /\ UNCHANGED helperVars
    /\ pc = "closed"
    /\ pc' = "done"
    /\ equity_curve' = BuildEquityCurve(<<F(1)>>, daily_returns)
    /\ UNCHANGED <<error, n1, n2, interval, config, warmup, nan_at, n, lookback_bars,
                   hedge_ratio, intercept, spread, i, p1, p2, position, equity, trades,
                   daily_returns>>

\* lines 372-374: metrics of the returned BacktestResult
ResultMetrics == calculate_metrics(trades, daily_returns, interval)

Next ==
    \/ Validate
    \/ UseForcedParameters
    \/ FitEngleGranger
    \/ SimulateBar
    \/ Closeout
    \/ BuildResult

Spec == Init /\ [][Next]_vars

(***************************************************************************)
(* Inputs with a NaN in prices1 (its first or its last element).           *)
(***************************************************************************)
InitNonFinite ==
    /\ config \in {ConfigForced, ConfigFitted}
    /\ interval \in Intervals
    /\ warmup \in WarmupKinds
    /\ n1 \in CandidateLengths(config, interval)
    /\ n2 \in {n1, n1 - 1}
    /\ nan_at \in {Some(0), Some(n1 - 1)}
    /\ InitLocals

SpecNonFinite == InitNonFinite /\ [][Next]_vars

(***************************************************************************)
(* Inputs that supply both, one or none of the hedge-ratio overrides.      *)
(***************************************************************************)
InitOverride ==
    /\ config \in {ConfigForced, ConfigFitted, ConfigLoneHedgeRatio, ConfigLoneIntercept}
    /\ interval \in Intervals
    /\ warmup \in WarmupKinds
    /\ n1 \in CandidateLengths(config, interval)
    /\ n2 \in {n1, n1 - 1}
    /\ nan_at = None
    /\ InitLocals

SpecOverride == InitOverride /\ [][Next]_vars

(***************************************************************************)
(* Inputs whose thresholds put both exit rules within reach.               *)
(***************************************************************************)
InitExits ==
    /\ config \in {ConfigFitted, ConfigTightStop, ConfigExitBelowEntry}
    /\ interval \in Intervals
    /\ warmup \in WarmupKinds
    /\ n1 \in CandidateLengths(config, interval)
    /\ n2 \in {n1, n1 - 1}
    /\ nan_at = None
    /\ InitLocals

SpecExits == InitExits /\ [][Next]_vars

(***************************************************************************)
(* Inputs whose entry threshold a bar can meet exactly.                    *)
(***************************************************************************)
InitEntries ==
    /\ config \in {ConfigForced, ConfigFitted, ConfigZeroEntry}
    /\ interval \in Intervals
    /\ warmup \in WarmupKinds
    /\ n1 \in CandidateLengths(config, interval)
    /\ n2 \in {n1, n1 - 1}
    /\ nan_at = None
    /\ InitLocals

SpecEntries == InitEntries /\ [][Next]_vars

(***************************************************************************)
(* The interval helpers called on their own.                               *)
(***************************************************************************)
\* no call of run_backtest is in progress
NoEngineCall ==
    /\ pc = "none"
    /\ error = "none"
    /\ n1 = 0
    /\ n2 = 0
    /\ interval = <<>>
    /\ config = BaseConfig
    /\ warmup = "flat"
    /\ nan_at = None
    /\ n = 0
    /\ lookback_bars = 0
    /\ hedge_ratio = F(0)
    /\ intercept = F(0)
    /\ spread = <<>>
    /\ i = 0
    /\ p1 = F(0)
    /\ p2 = F(0)
    /\ position = NewPositionState
    /\ equity = F(1)
    /\ trades = <<>>
    /\ daily_returns = <<>>
    /\ equity_curve = <<>>

\* interval strings: a prefix followed by a suffix
IntervalPrefixes ==
    {<<>>, <<"0">>, <<"1">>, <<"4">>, <<"5">>, <<"1", "5">>, <<"x">>, <<"5", " ">>, <<" ", "1">>}

IntervalSuffixes ==
    {<<>>, <<"m", "i", "n">>, <<"m">>, <<"h">>, <<"d">>, <<"w">>, <<"H">>,
     <<"M", "I", "N">>, <<"y">>, <<"d", " ">>}

IntervalStrings == {a \o b : a \in IntervalPrefixes, b \in IntervalSuffixes}

HoursValues == {F(0), F(1), F(12), F(24), F(48), Rat(1, 2)}

IntervalCalls ==
    [fn : {"_parse_interval_to_minutes", "get_annualization_factor"},
     interval : IntervalStrings, hours : {F(0)}]
    \cup [fn : {"calculate_lookback_bars"}, interval : IntervalStrings, hours : HoursValues]

InitInterval ==
    /\ call \in IntervalCalls
    /\ ret = None
    /\ status = 0
    /\ NoEngineCall

ParseInterval ==
    /\ call.fn = "_parse_interval_to_minutes"
    /\ ret = None
    /\ ret' = Some(_parse_interval_to_minutes(call.interval))
    /\ UNCHANGED <<call, status, engineVars>>

AnnualizationFactor ==
    /\ call.fn = "get_annualization_factor"
    /\ ret = None
    /\ ret' = Some(get_annualization_factor(call.interval))
    /\ UNCHANGED <<call, status, engineVars>>

LookbackBars ==
    /\ call.fn = "calculate_lookback_bars"
    /\ ret = None
    /\ ret' = Some(calculate_lookback_bars(call.hours, call.interval))
    /\ UNCHANGED <<call, status, engineVars>>

NextInterval ==
    \/ ParseInterval
    \/ AnnualizationFactor
    \/ LookbackBars

SpecInterval == InitInterval /\ [][NextInterval]_vars

(***************************************************************************)
(* calculate_metrics called on its own.                                    *)
(***************************************************************************)
\* pnl_net of a trade
TradePnls == {Rat(-1, 4), F(0), Rat(1, 2)}

MaxTrades == 3

\* trade lists of up to MaxTrades trades, each held for one bar
TradeLists ==
    UNION {[1..m -> [pnl_net : TradePnls, holding_period : {1}]] : m \in 0..MaxTrades}

\* the per-bar returns of a trade list: each pnl_net on a bar of its own, with
\* or without bars of no return around them
ReturnsOf(trade_list, padded) ==
    LET pnls == [k \in 1..Len(trade_list) |-> trade_list[k].pnl_net]
    IN  IF padded THEN <<F(0)>> \o pnls \o <<F(0)>> ELSE pnls

MetricsCalls ==
    {[fn |-> "calculate_metrics", trades |-> t, daily_returns |-> ReturnsOf(t, padded),
      interval |-> iv] : t \in TradeLists, padded \in BOOLEAN, iv \in Intervals}

InitMetrics ==
    /\ call \in MetricsCalls
    /\ ret = None
    /\ status = 0
    /\ NoEngineCall

Metrics ==
    /\ call.fn = "calculate_metrics"
    /\ ret = None
    /\ ret' = Some(calculate_metrics(call.trades, call.daily_returns, call.interval))
    /\ UNCHANGED <<call, status, engineVars>>

NextMetrics == Metrics

SpecMetrics == InitMetrics /\ [][NextMetrics]_vars

(***************************************************************************)
(* _approximate_cointegration_pvalue called on its own.                    *)
(***************************************************************************)
\* ADF statistics from -5.00 to 6.00 in steps of 0.01
TStats == {Rat(k, 100) : k \in -500..600}

PvalueCalls ==
    [fn : {"_approximate_cointegration_pvalue"}, t_stat : TStats, num_vars : {2, 3, 4}]

InitPvalue ==
    /\ call \in PvalueCalls
    /\ ret = None
    /\ status = 0
    /\ NoEngineCall

Pvalue ==
    /\ call.fn = "_approximate_cointegration_pvalue"
    /\ ret = None
    /\ ret' = Some(_approximate_cointegration_pvalue(call.t_stat, call.num_vars))
    /\ UNCHANGED <<call, status, engineVars>>

NextPvalue == Pvalue

SpecPvalue == InitPvalue /\ [][NextPvalue]_vars

(***************************************************************************)
(* api/routes/backtest.py: run_backtest_endpoint.  A request is the        *)
(* lengths of its two price series, its interval and its optional config.  *)
(***************************************************************************)
\* fields of the dataclass BacktestConfig of engine.py
EngineConfigFields ==
    {"entry_threshold", "exit_threshold", "stop_loss", "commission_pct", "slippage_bps",
     "use_dynamic_hedge", "lookback_hours", "force_hedge_ratio", "force_intercept"}

\* keyword arguments of the EngineConfig(...) call of the endpoint
EngineConfigKwargs ==
    {"entry_threshold", "exit_threshold", "stop_loss", "commission_pct", "slippage_bps",
     "use_rolling_hedge", "hedge_ratio_lookback_days", "hedge_recalc_interval_hours",
     "use_dynamic_hedge", "lookback_hours"}

\* the pydantic BacktestConfig with its defaults
ApiDefaultConfig ==
    [entry_threshold |-> F(2), exit_threshold |-> F(0), stop_loss |-> F(3),
     commission_pct |-> Rat(4, 10000), slippage_bps |-> F(3),
     use_rolling_hedge |-> FALSE, hedge_ratio_lookback_days |-> Some(F(30)),
     hedge_recalc_interval_hours |-> Some(F(1)), use_dynamic_hedge |-> FALSE,
     lookback_hours |-> Some(F(24))]

ApiConfigs ==
    {None, Some(ApiDefaultConfig), Some([ApiDefaultConfig EXCEPT !.lookback_hours = None]),
     Some([ApiDefaultConfig EXCEPT !.entry_threshold = F(1)])}

MinEndpointPoints == 30

RequestLengths ==
    {0, 1, MinEngleGrangerObs, MinEndpointPoints - 1, MinEndpointPoints, MinEndpointPoints + 1,
     2 * MinEndpointPoints}

InitEndpoint ==
    /\ pc = "request"
    /\ n1 \in RequestLengths
    /\ n2 \in {n1, n1 + 1, 2 * n1}
    /\ interval \in Intervals
    /\ config \in ApiConfigs
    /\ status = 0
    /\ error = "none"
    /\ warmup = "flat"
    /\ nan_at = None
    /\ n = 0
    /\ lookback_bars = 0
    /\ hedge_ratio = F(0)
    /\ intercept = F(0)
    /\ spread = <<>>
    /\ i = 0
    /\ p1 = F(0)
    /\ p2 = F(0)
    /\ position = NewPositionState
    /\ equity = F(1)
    /\ trades = <<>>
    /\ daily_returns = <<>>
    /\ equity_curve = <<>>
    /\ call = None
    /\ ret = None

\* an exception raised inside the try block
EndpointRaise(exc) ==
    /\ pc' = "raised"
    /\ error' = exc
    /\ UNCHANGED config

\* lines 181-190: the two checks on the request
EndpointValidate ==
    /\ pc = "request"
    /\ IF n1 # n2
       THEN EndpointRaise("HTTPException(400): Price series must have the same length")
       ELSE IF n1 < MinEndpointPoints
       THEN EndpointRaise("HTTPException(400): Insufficient data for backtest")
       ELSE /\ pc' = "convert"
            /\ UNCHANGED <<error, config>>
    /\ UNCHANGED <<n1, n2, interval, warmup, nan_at, n, lookback_bars, hedge_ratio,
                   intercept, spread, i, p1, p2, position, equity, trades,
                   daily_returns, equity_curve, call, ret, status>>

\* lines 197-209: EngineConfig(...) is the generated __init__ of the dataclass,
\* which raises TypeError on a keyword that is not one of its fields; the call
\* of run_backtest on line 212 follows it
EndpointConvertConfig ==
    /\ pc = "convert"
    /\ LET api == IF IsNone(config) THEN ApiDefaultConfig ELSE Value(config)
       IN  IF ~(EngineConfigKwargs \subseteq EngineConfigFields)
           THEN EndpointRaise("TypeError: unexpected keyword argument")
           ELSE /\ pc' = "start"
                /\ config' = [entry_threshold |-> api.entry_threshold,
                               exit_threshold |-> api.exit_threshold,
                               stop_loss |-> api.stop_loss,
                               commission_pct |-> api.commission_pct,
                               slippage_bps |-> api.slippage_bps,
                               lookback_hours |-> api.lookback_hours,
                               force_hedge_ratio |-> None, force_intercept |-> None]
                /\ UNCHANGED error
    /\ UNCHANGED <<n1, n2, interval, warmup, nan_at, n, lookback_bars, hedge_ratio,
                   intercept, spread, i, p1, p2, position, equity, trades,
                   daily_returns, equity_curve, call, ret, status>>

\* lines 272-275: `except ValueError` answers 400, `except Exception` answers
\* 500; HTTPException is an Exception and not a ValueError
StatusOf(exc) ==
    IF exc \in {"ValueError: Price series must have same length",
                "ValueError: Insufficient data",
                "ValueError: Price series must have same length (engle_granger_test)",
                "ValueError: Need at least 20 observations", "ValueError"}
    THEN 400
    ELSE 500

\* lines 272-275: the exception handlers of the endpoint
EndpointHandle ==
    /\ pc \in {"raised", "error"}
    /\ pc' = "responded"
    /\ status' = StatusOf(error)
    /\ UNCHANGED <<error, n1, n2, interval, config, warmup, nan_at, n, lookback_bars,
                   hedge_ratio, intercept, spread, i, p1, p2, position, equity, trades,
                   daily_returns, equity_curve, call, ret>>

NextEndpoint ==
    \/ EndpointValidate
    \/ EndpointConvertConfig
    \/ EndpointHandle

SpecEndpoint == InitEndpoint /\ [][NextEndpoint]_vars

(***************************************************************************)
(* Properties of run_backtest.                                             *)
(***************************************************************************)
Returned == pc = "done"

\* position of bar `bar` in daily_returns (Python index bar - L, sequences from 1)
ReturnSlot(bar) == bar - lookback_bars + 1

TradeIndices == 1..Len(trades)

InLoopTrades == {k \in TradeIndices : trades[k].exit_reason # "end_of_data"}

EndOfDataTrades == {k \in TradeIndices : trades[k].exit_reason = "end_of_data"}

\* C1: no position is opened on the bar on which a position was closed: after a
\* bar whose exit arm closed a trade the engine is flat, and no trade starts on
\* the bar at which the preceding trade was closed inside the loop.
C1_NoReentryOnCloseBar ==
    /\ (pc = "loop" /\ trades # <<>> /\ Last(trades).exit_time = i - 1)
            => ~position.is_open
    /\ \A k \in InLoopTrades :
            k + 1 \in TradeIndices => trades[k + 1].entry_time # trades[k].exit_time

\* C2: every trade's pnl_net sits in daily_returns at the slot of its exit bar,
\* daily_returns[exit_time - L] == pnl_net.
C2_ReturnAtExitBar ==
    Returned => \A k \in TradeIndices :
        /\ ReturnSlot(trades[k].exit_time) \in 1..Len(daily_returns)
        /\ daily_returns[ReturnSlot(trades[k].exit_time)] = trades[k].pnl_net

\* C3: every trade has entry_time < exit_time and
\* holding_period == exit_time - entry_time.
C3_PositiveHoldingPeriod ==
    \A k \in TradeIndices :
        /\ trades[k].entry_time < trades[k].exit_time
        /\ trades[k].holding_period = trades[k].exit_time - trades[k].entry_time

\* C4: the trade list is ordered and non-overlapping (exit_time of a trade is at
\* most the entry_time and the exit_time of the next one), and the one position
\* that may be open inside the loop was opened no earlier than every emitted
\* trade was closed.
C4_TradesOrdered ==
    /\ \A k \in TradeIndices : k + 1 \in TradeIndices =>
            /\ trades[k].exit_time <= trades[k + 1].entry_time
            /\ trades[k].exit_time <= trades[k + 1].exit_time
    /\ (pc = "loop" /\ position.is_open) =>
            \A k \in TradeIndices : trades[k].exit_time <= position.entry_bar

C4_Witness ==
    /\ Returned
    /\ Len(trades) >= 3
    /\ \E k \in TradeIndices : k + 1 \in TradeIndices
            /\ trades[k].exit_time = trades[k + 1].entry_time
    /\ \E k \in TradeIndices : k + 1 \in TradeIndices
            /\ trades[k].exit_time < trades[k + 1].entry_time

\* C5: a position still open after the last bar yields exactly one end_of_data
\* trade, the last of the list, closed at bar N - 1 at that bar's prices, whose
\* pnl_net overwrites the last entry of daily_returns; with no position open
\* after the loop there is no end_of_data trade.
C5_EndOfDataCloseout ==
    pc \in {"closed", "done"} =>
        IF position.is_open
        THEN /\ EndOfDataTrades = {Len(trades)}
             /\ Last(trades).exit_time = n1 - 1
             /\ Last(trades).exit_price1 = p1
             /\ Last(trades).exit_price2 = p2
             /\ Last(daily_returns) = Last(trades).pnl_net
        ELSE EndOfDataTrades = {}

C5_Witness ==
    /\ Returned
    /\ position.is_open
    /\ Len(trades) >= 2
    /\ Last(trades).exit_reason = "end_of_data"
    /\ Last(trades).entry_time < n1 - 1
    /\ FNe(Last(daily_returns), F(0))

NonZeroReturns == {k \in 1..Len(daily_returns) : FNe(daily_returns[k], F(0))}

\* C6 (as stated): the number of non-zero entries of daily_returns equals the
\* number of trades.
C6_NonZeroReturnsEqualTrades ==
    Returned => Cardinality(NonZeroReturns) = Len(trades)

\* C6 (amended): the number of non-zero entries of daily_returns equals the
\* number of trades whose pnl_net is not zero, and never exceeds the number of
\* trades.
C6_NonZeroReturnsEqualNonZeroTrades ==
    Returned =>
        /\ Cardinality(NonZeroReturns)
              = Cardinality({k \in TradeIndices : FNe(trades[k].pnl_net, F(0))})
        /\ Cardinality(NonZeroReturns) <= Len(trades)

C6_Witness ==
    /\ Returned
    /\ \E k \in TradeIndices : FEq(trades[k].pnl_net, F(0))
    /\ \E k \in TradeIndices : FNe(trades[k].pnl_net, F(0))

\* C7: daily_returns has N - L entries, equity_curve one more, equity_curve[0]
\* is 1.0 and equity_curve[k+1] == equity_curve[k] * (1 + daily_returns[k]).
C7_EquityCurveShape ==
    Returned =>
        /\ Len(daily_returns) = n1 - lookback_bars
        /\ Len(equity_curve) = Len(daily_returns) + 1
        /\ equity_curve[1] = F(1)
        /\ \A k \in 1..Len(daily_returns) :
              equity_curve[k + 1] = FMul(equity_curve[k], FAdd(F(1), daily_returns[k]))

C7_Witness ==
    /\ Returned
    /\ Cardinality(NonZeroReturns) >= 2
    /\ FNe(Last(equity_curve), F(1))
    /\ FNe(Last(equity_curve), F(0))

\* C8: every trade has pnl_net == pnl_gross - round_trip_cost with
\* round_trip_cost == 2 commission_pct + 2 (slippage_bps / 10000), the same for
\* every trade; with no commission and no slippage pnl_net == pnl_gross.
C8_NetIsGrossMinusCost ==
    LET cost == FAdd(FMul(F(2), config.commission_pct),
                     FMul(F(2), FDiv(config.slippage_bps, F(10000))))
    IN  \A k \in TradeIndices :
            /\ trades[k].pnl_net = FSub(trades[k].pnl_gross, cost)
            /\ (config.commission_pct = F(0) /\ config.slippage_bps = F(0))
                    => trades[k].pnl_net = trades[k].pnl_gross

C8_Witness ==
    /\ Returned
    /\ InLoopTrades # {}
    /\ EndOfDataTrades # {}
    /\ config.commission_pct # F(0)
    /\ config.slippage_bps # F(0)

\* the window length the claim names: lookback_bars(lookback_hours, interval)
\* when lookback_hours is set, 20 otherwise
ClaimedLookback ==
    IF IsNone(config.lookback_hours) THEN 20
    ELSE calculate_lookback_bars(Value(config.lookback_hours), interval).val

UpFrontErrors ==
    {"ValueError: Price series must have same length", "ValueError: Insufficient data"}

NothingSimulated ==
    /\ daily_returns = <<>>
    /\ trades = <<>>
    /\ equity_curve = <<>>
    /\ i = 0

\* C9: with prices of different lengths or N < L + 10 the call fails with an
\* input error before any bar is simulated and returns nothing; every error of
\* the call is one of these two, raised before the simulation: the length checks
\* of engle_granger_test, the loop and the closeout raise nothing.
C9_ValidationUpFront ==
    /\ (pc # "start" /\ (n1 # n2 \/ n1 < ClaimedLookback + 10))
            => (pc = "error" /\ error \in UpFrontErrors /\ NothingSimulated)
    /\ pc = "error" => (error \in UpFrontErrors /\ NothingSimulated)
    /\ pc # "error" => error = "none"

C9_Witness ==
    /\ pc = "error"
    /\ IsNone(config.lookback_hours)
    /\ n1 = n2
    /\ n1 >= MinEngleGrangerObs
    /\ n1 < 30
    /\ error = "ValueError: Insufficient data"

\* C10: a price vector with a NaN element makes the call fail before the
\* simulation starts; no bar is simulated and no result is returned.
C10_NonFiniteRejected ==
    (~IsNone(nan_at) /\ Value(nan_at) \in 0..(n1 - 1)) => pc \in {"start", "hedge", "error"}

\* C11: (force_hedge_ratio, force_intercept) are used as (beta, alpha), for the
\* spread, for the hedge_ratio snapshot of every position and for the returned
\* hedge_ratio and intercept, exactly when both are supplied; with one or none
\* supplied both are ignored and the fitted values are used for both.
C11_OverrideAllOrNothing ==
    pc \in {"loop", "closed", "done"} =>
        /\ IF ~IsNone(config.force_hedge_ratio) /\ ~IsNone(config.force_intercept)
           THEN /\ hedge_ratio = Value(config.force_hedge_ratio)
                /\ intercept = Value(config.force_intercept)
           ELSE [hedge_ratio |-> hedge_ratio, intercept |-> intercept] \in FittedParams
        /\ position.is_open => position.hedge_ratio = hedge_ratio
        /\ i > lookback_bars =>
                Last(spread) = FSub(FSub(p1, intercept), FMul(hedge_ratio, p2))

\* a returned run with a trade for a lone force_hedge_ratio that differs from
\* the fitted one
C11_Witness ==
    /\ Returned
    /\ trades # <<>>
    /\ config = ConfigLoneHedgeRatio
    /\ Value(config.force_hedge_ratio) # hedge_ratio

\* the rolling z of the bar a step of the loop simulates
BarZ == calculate_z_score(Append(spread, build_spread(p1', p2', hedge_ratio, intercept)))

\* a step of the loop taken with a position open
BarWithOpenPosition == pc = "loop" /\ i' = i + 1 /\ position.is_open

\* the step closes the open position at its bar for the given reason
ClosesFor(reason) ==
    /\ Len(trades') = Len(trades) + 1
    /\ Last(trades').exit_reason = reason
    /\ Last(trades').exit_time = i
    /\ Last(trades').entry_time = position.entry_bar

MeanReversionCondition(side, z) ==
    \/ side = "long_spread" /\ ZGe(z, config.exit_threshold)
    \/ side = "short_spread" /\ ZLe(z, config.exit_threshold)

StopLossCondition(side, z, entry_z) ==
    /\ ZAbsGe(z, config.stop_loss)
    /\ \/ side = "long_spread" /\ FLt(z, entry_z)
       \/ side = "short_spread" /\ FGt(z, entry_z)

\* C19: at a bar where the open position meets its mean-reversion condition,
\* the stop-loss condition met as well or not, the trade is closed with
\* exit_reason "mean_reversion"; a trade closed with "stop_loss" has an exit z
\* for which the mean-reversion condition of its side is false.
C19_MeanReversionFirst ==
    [][BarWithOpenPosition =>
        /\ MeanReversionCondition(position.side, BarZ) => ClosesFor("mean_reversion")
        /\ ClosesFor("stop_loss") =>
                /\ ~MeanReversionCondition(position.side, BarZ)
                /\ ~MeanReversionCondition(Last(trades').side, Last(trades').exit_z_score)
      ]_vars

\* a trade closed by mean reversion on a bar that met the stop-loss condition too
C19_Witness ==
    \E k \in TradeIndices :
        /\ trades[k].exit_reason = "mean_reversion"
        /\ MeanReversionCondition(trades[k].side, trades[k].exit_z_score)
        /\ StopLossCondition(trades[k].side, trades[k].exit_z_score, trades[k].entry_z_score)

\* C20: an open position that mean reversion does not close at bar i is closed
\* with exit_reason "stop_loss" exactly when |z_i| >= stop_loss and z_i is
\* strictly beyond the entry z on the adverse side; otherwise it stays open.
C20_StopLossOnAdverseMove ==
    [][(BarWithOpenPosition /\ ~MeanReversionCondition(position.side, BarZ)) =>
        /\ ClosesFor("stop_loss")
                <=> StopLossCondition(position.side, BarZ, position.entry_z_score)
        /\ ~StopLossCondition(position.side, BarZ, position.entry_z_score)
                => (trades' = trades /\ position' = position)
      ]_vars

\* a position opened at |z| >= stop_loss, held over later bars and then stopped
C20_Witness ==
    \E k \in TradeIndices :
        /\ trades[k].exit_reason = "stop_loss"
        /\ ZAbsGe(trades[k].entry_z_score, config.stop_loss)
        /\ trades[k].holding_period >= 2

\* C21: an open long_spread position is closed with "mean_reversion" at a bar
\* exactly when z >= exit_threshold, an open short_spread position exactly when
\* z <= exit_threshold; a bar with z == exit_threshold closes the position
\* whichever side it is, and the rule of the other side closes nothing.
C21_MeanReversionNonStrict ==
    [][BarWithOpenPosition =>
        /\ position.side = "long_spread" =>
                (ClosesFor("mean_reversion") <=> ZGe(BarZ, config.exit_threshold))
        /\ position.side = "short_spread" =>
                (ClosesFor("mean_reversion") <=> ZLe(BarZ, config.exit_threshold))
        /\ FEq(BarZ, SignedSquare(config.exit_threshold)) => ClosesFor("mean_reversion")
      ]_vars

\* a short position closed by mean reversion at z == 0 exactly, exit_threshold 0
C21_Witness ==
    /\ config.exit_threshold = F(0)
    /\ \E k \in TradeIndices :
            /\ trades[k].exit_reason = "mean_reversion"
            /\ trades[k].side = "short_spread"
            /\ trades[k].exit_z_score = F(0)

\* the entry fields of a trade or of a position
EntrySnapshot(r, bar) == <<bar, r.side, r.entry_z_score, r.entry_price1, r.entry_price2>>

\* a step of the loop whose entry arm runs: no position was open, or the
\* exit arm has just closed it
EntryArmRuns ==
    /\ pc = "loop"
    /\ i' = i + 1
    /\ ~position.is_open \/ Len(trades') = Len(trades) + 1

StrictlyBeyondEntry(side, z) ==
    \/ side = "long_spread" /\ ZLt(z, FNeg(config.entry_threshold))
    \/ side = "short_spread" /\ ZGt(z, config.entry_threshold)

\* C22: every long_spread trade has entry_z_score < -entry_threshold and every
\* short_spread trade entry_z_score > +entry_threshold; a bar whose |z| equals
\* entry_threshold opens nothing; the entry_z_score and entry prices of a trade
\* are the rolling z and the prices of bar entry_time, captured when the
\* position opens and unchanged until the trade is emitted.
C22_StrictEntrySnapshot ==
    /\ [](/\ \A k \in TradeIndices :
                StrictlyBeyondEntry(trades[k].side, trades[k].entry_z_score)
          /\ (pc = "loop" /\ position.is_open)
                => StrictlyBeyondEntry(position.side, position.entry_z_score))
    /\ [][/\ EntryArmRuns =>
                /\ position'.is_open <=>
                        (ZLt(BarZ, FNeg(config.entry_threshold))
                            \/ ZGt(BarZ, config.entry_threshold))
                /\ FEq(FAbs(BarZ), SignedSquare(config.entry_threshold))
                        => ~position'.is_open
                /\ position'.is_open =>
                        /\ EntrySnapshot(position', position'.entry_bar)
                                = <<i, position'.side, BarZ, p1', p2'>>
                        /\ StrictlyBeyondEntry(position'.side, BarZ)
          /\ (BarWithOpenPosition /\ trades' = trades) => position' = position
          /\ (position.is_open /\ Len(trades') = Len(trades) + 1) =>
                EntrySnapshot(Last(trades'), Last(trades').entry_time)
                    = EntrySnapshot(position, position.entry_bar)
        ]_vars

\* entry_threshold 0: the engine is flat after a bar with z == 0 that closed
\* a trade, and an earlier bar opened the position of that trade
C22_Witness ==
    /\ config.entry_threshold = F(0)
    /\ pc \in {"loop", "closed", "done"}
    /\ i > lookback_bars
    /\ ~position.is_open
    /\ trades # <<>>
    /\ Last(trades).exit_time = i - 1
    /\ Last(trades).exit_z_score = F(0)

RECURSIVE CompoundedPnl(_)
\* the product of (1 + pnl_net) over a list of trades, in order
CompoundedPnl(trade_list) ==
    IF trade_list = <<>> THEN F(1)
    ELSE FMul(CompoundedPnl(SubSeq(trade_list, 1, Len(trade_list) - 1)),
              FAdd(F(1), Last(trade_list).pnl_net))

\* the entry of daily_returns that holds the return of the k-th trade: the last
\* one for the end-of-data trade, the one written on line 278 otherwise
SlotOfTrade(k) ==
    IF trades[k].exit_reason = "end_of_data" THEN Len(daily_returns)
    ELSE trades[k].exit_time - lookback_bars

\* C23: after a run the running equity, the product of (1 + pnl_net) over the
\* trades in order, equals the last element of equity_curve; every trade's
\* pnl_net sits in an entry of daily_returns of its own and every other entry
\* is zero.
C23_EquityAgreesWithCurve ==
    Returned =>
        /\ equity = CompoundedPnl(trades)
        /\ equity = Last(equity_curve)
        /\ \A k \in TradeIndices :
                /\ SlotOfTrade(k) \in 1..Len(daily_returns)
                /\ daily_returns[SlotOfTrade(k)] = trades[k].pnl_net
        /\ \A j, k \in TradeIndices : j # k => SlotOfTrade(j) # SlotOfTrade(k)
        /\ \A m \in 1..Len(daily_returns) :
                (\A k \in TradeIndices : SlotOfTrade(k) # m) => daily_returns[m] = F(0)

\* a run with trades closed on consecutive bars and a trade closed with a
\* return on the last bar, followed by the end-of-data trade
C23_Witness ==
    /\ Returned
    /\ Len(trades) >= 3
    /\ FNe(trades[Len(trades) - 1].pnl_net, F(0))
    /\ trades[Len(trades) - 1].exit_time = n1 - 1
    /\ Last(trades).exit_reason = "end_of_data"
    /\ \E k \in InLoopTrades : k + 1 \in InLoopTrades
            /\ trades[k + 1].exit_time = trades[k].exit_time + 1
    /\ FNe(equity, F(1))

\* a step of the loop or of the closeout that appends a trade, and so writes
\* daily_returns[-1] (lines 272-278 and 352-358)
WritesLastReturn == Len(trades') = Len(trades) + 1

\* C24: daily_returns[-1] = net_pnl never hits an empty list.  The position is
\* flat and daily_returns is empty when the first simulated bar (i = L) is
\* evaluated; a write of the exit arm happens at a bar i >= L + 1 with i - L
\* returns already appended; the write of the closeout happens with N - L >= 10
\* returns appended; neither the loop nor the closeout raises an index error.
C24_NoIndexError ==
    [][/\ error' # "IndexError"
       /\ (pc = "loop" /\ i = lookback_bars)
             => (~position.is_open /\ daily_returns = <<>>)
       /\ pc = "loop" => Len(daily_returns) = i - lookback_bars
       /\ WritesLastReturn =>
             /\ position.is_open
             /\ daily_returns # <<>>
             /\ IF Last(trades').exit_reason = "end_of_data"
                THEN i = n /\ Len(daily_returns) >= MinExtraBars
                ELSE i >= lookback_bars + 1 /\ Len(daily_returns) >= 1]_vars

\* a run of the shortest valid length whose first trade is opened on the first
\* simulated bar and closed on the next one, onto the single return appended so
\* far, and whose last trade is closed at the end of the data
C24_Witness ==
    /\ Returned
    /\ n = lookback_bars + MinExtraBars
    /\ Len(trades) >= 2
    /\ trades[1].entry_time = lookback_bars
    /\ trades[1].exit_time = lookback_bars + 1
    /\ trades[1].exit_reason # "end_of_data"
    /\ daily_returns[1] = trades[1].pnl_net
    /\ Last(trades).exit_reason = "end_of_data"
    /\ daily_returns[MinExtraBars] = Last(trades).pnl_net

(***************************************************************************)
(* Properties of the interval helpers.                                     *)
(***************************************************************************)
Returns(fn) == ~IsNone(call) /\ call.fn = fn /\ ~IsNone(ret)

SuffixMinutes ==
    {[suffix |-> <<"m", "i", "n">>, minutes |-> 1], [suffix |-> <<"m">>, minutes |-> 1],
     [suffix |-> <<"h">>, minutes |-> 60], [suffix |-> <<"d">>, minutes |-> 1440],
     [suffix |-> <<"w">>, minutes |-> 10080]}

\* the readings of s as digits followed by min, m, h, d or w, in any case and
\* with blanks around it: the minutes each reading stands for
MinutesRead(s) ==
    LET t == Strip(LowerStr(s))
    IN  {DecimalValue(SubSeq(t, 1, Len(t) - Len(u.suffix))) * u.minutes :
            u \in {v \in SuffixMinutes :
                    /\ EndsWith(t, v.suffix)
                    /\ Len(t) > Len(v.suffix)
                    /\ \A k \in 1..(Len(t) - Len(v.suffix)) : IsDigit(t[k])}}

\* C12: for every parseable interval the annualization factor times the
\* interval length in minutes is 525600 (8760 for "1h", 365 for "1d", and the
\* same relation for "1w").
C12_AnnualizationTimesMinutes ==
    (Returns("get_annualization_factor") /\ MinutesRead(call.interval) # {}
        /\ Value(ret).ok /\ _parse_interval_to_minutes(call.interval).ok)
    => FMul(Value(ret).val, _parse_interval_to_minutes(call.interval).val) = F(525600)

\* C13: _parse_interval_to_minutes raises nothing; it returns the parsed
\* minutes for digits followed by min/m/h/d/w and 1440 for every other string.
C13_ParseNeverFails ==
    Returns("_parse_interval_to_minutes") =>
        /\ Value(ret).ok
        /\ IF MinutesRead(call.interval) # {}
           THEN Value(ret).val \in {F(m) : m \in MinutesRead(call.interval)}
           ELSE Value(ret).val = F(1440)

\* floor(hours * 60 / minutes) on the rationals
FloorBars(hours, minutes) == (hours.n * 60) \div (hours.d * minutes)

LookbackAsClaimed(minutes) ==
    /\ Value(ret).ok
    /\ Value(ret).val = Max(10, FloorBars(call.hours, minutes))
    /\ Value(ret).val >= 10
    /\ \A h \in HoursValues : FLe(h, call.hours) =>
            calculate_lookback_bars(h, call.interval).val <= Value(ret).val
    /\ (call.hours = F(24) /\ call.interval = <<"5", "m", "i", "n">>) => Value(ret).val = 288
    /\ (call.hours = F(24) /\ call.interval = <<"1", "5", "m", "i", "n">>) => Value(ret).val = 96
    /\ (call.hours = F(24) /\ call.interval = <<"1", "h">>) => Value(ret).val = 24

\* C14 (as stated): for every hours >= 0 and every parseable interval,
\* calculate_lookback_bars returns max(10, floor(hours * 60 / minutes)), which is
\* at least 10 and non-decreasing in hours.
C14_LookbackBarsFormula ==
    Returns("calculate_lookback_bars") =>
        \A m \in MinutesRead(call.interval) : LookbackAsClaimed(m)

\* C14 (amended): the same for every parseable interval of positive length; for
\* a parseable interval of zero minutes the call raises ZeroDivisionError.
C14_LookbackBarsFormulaPositiveInterval ==
    Returns("calculate_lookback_bars") =>
        \A m \in MinutesRead(call.interval) :
            IF m > 0 THEN LookbackAsClaimed(m)
            ELSE ~Value(ret).ok /\ Value(ret).exc = "ZeroDivisionError"

C14_Witness ==
    /\ Returns("calculate_lookback_bars")
    /\ call.hours = F(24)
    /\ call.interval = <<"5", "m", "i", "n">>
    /\ Value(ret).val = 288

(***************************************************************************)
(* Properties of calculate_metrics.                                        *)
(***************************************************************************)
NoLosingTrade(trade_list) == \A k \in 1..Len(trade_list) : ~FLt(trade_list[k].pnl_net, F(0))

\* C15 (as stated): profit_factor is +infinity whenever the trade list has no
\* losing trade, the empty list and lists of zero-PnL trades included.
C15_ProfitFactorInfinite ==
    (Returns("calculate_metrics") /\ NoLosingTrade(call.trades))
        => Value(ret).profit_factor = Infinity

\* C15 (amended): profit_factor is +infinity whenever the trade list is not
\* empty and has no losing trade, lists of zero-PnL trades included; for the
\* empty list it is 0.0; with a losing trade it is finite.
C15_ProfitFactorInfiniteNonEmpty ==
    Returns("calculate_metrics") =>
        /\ (call.trades # <<>> /\ NoLosingTrade(call.trades))
                => Value(ret).profit_factor = Infinity
        /\ call.trades = <<>> => Value(ret).profit_factor = F(0)
        /\ ~NoLosingTrade(call.trades) => Value(ret).profit_factor # Infinity

C15_Witness ==
    /\ Returns("calculate_metrics")
    /\ Len(call.trades) = 2
    /\ \A k \in 1..2 : call.trades[k].pnl_net = F(0)
    /\ Value(ret).profit_factor = Infinity

\* C18: for an empty trade list every field of the metrics record is zero.
C18_EmptyMetricsAllZero ==
    (Returns("calculate_metrics") /\ call.trades = <<>>) =>
        /\ \A f \in {"total_return", "win_rate", "profit_factor", "avg_win", "avg_loss",
                      "max_win", "max_loss", "avg_holding_period", "sharpe_ratio",
                      "sortino_ratio", "calmar_ratio", "max_drawdown"} :
                Value(ret)[f] = F(0)
        /\ \A f \in {"total_trades", "winning_trades", "losing_trades",
                      "max_drawdown_duration"} :
                Value(ret)[f] = 0

C18_Witness ==
    /\ Returns("calculate_metrics")
    /\ call.trades = <<>>
    /\ call.daily_returns # <<>>

(***************************************************************************)
(* Properties of _approximate_cointegration_pvalue.                        *)
(***************************************************************************)
Between(x, lo, hi) == FLe(lo, x) /\ FLe(x, hi)

\* C16: for two variables the p-value stays in the band of its segment
\* (0.01-0.05 for -3.90 < t <= -3.34, 0.05-0.10 for -3.34 < t <= -3.04,
\* 0.10-0.50 for -3.04 < t <= 0, at most 0.99 for t > 0), lies in (0, 1) and
\* is non-decreasing in t.
C16_PvalueBands ==
    (Returns("_approximate_cointegration_pvalue") /\ call.num_vars = 2) =>
        LET t == call.t_stat
            pv == Value(ret)
        IN  /\ (FLt(Rat(-390, 100), t) /\ FLe(t, Rat(-334, 100)))
                    => Between(pv, Rat(1, 100), Rat(5, 100))
            /\ (FLt(Rat(-334, 100), t) /\ FLe(t, Rat(-304, 100)))
                    => Between(pv, Rat(5, 100), Rat(10, 100))
            /\ (FLt(Rat(-304, 100), t) /\ FLe(t, F(0)))
                    => Between(pv, Rat(10, 100), Rat(50, 100))
            /\ FGt(t, F(0)) => FLe(pv, Rat(99, 100))
            /\ FGt(pv, F(0)) /\ FLt(pv, F(1))
            /\ FLe(_approximate_cointegration_pvalue(FSub(t, Rat(1, 100)), 2), pv)

(***************************************************************************)
(* Properties of run_backtest_endpoint.                                    *)
(***************************************************************************)
\* C17: every invalid-input failure is answered with a 4xx status: a request
\* whose price series differ in length or have fewer than 30 points gets HTTP
\* 400, never HTTP 500.
C17_InvalidInputIs400 ==
    (pc = "responded" /\ (n1 # n2 \/ n1 < 30)) => status = 400

====
